---- MODULE Spec2Model ----
(***************************************************************************)
(* Model of src/lib.rs: the breadth-first closure of org-roam notes        *)
(* (find_file_references_recursive), the per-note lookup                   *)
(* (find_files_referenced_by) and the resolution of file-link targets      *)
(* (try_resolve_asset_path).                                               *)
(***************************************************************************)
EXTENDS Integers, Sequences, FiniteSets, TLC

\* ------------------------------------------------------------------------
\* Bounds of the model
\* ------------------------------------------------------------------------
\* graph scenarios: seeds plus id-typed link rows
MaxSize == 4
\* order scenarios: id-typed link rows
MaxOrderRows == 3
\* asset scenarios: id-typed plus file-typed link rows
MaxAssetSize == 2
\* scenarios of two invocations: seeds plus id-typed plus file-typed link rows
MaxTwiceSize == 2

\* ------------------------------------------------------------------------
\* Paths (std::path::Path): a root flag and the list of components
\* ------------------------------------------------------------------------
P(a, c) == [abs |-> a, comps |-> c]

EmptyPath == P(FALSE, <<>>)

\* Option<T> is the set of at most one value
None == {}
Some(x) == {x}

\* The three notes of the store: an absolute path, a relative path and the
\* root (a path without a parent)
NoteA == P(TRUE, <<"roam", "a.org">>)
NoteB == P(FALSE, <<"notes", "b.org">>)
NoteC == P(TRUE, <<>>)
Notes == {NoteA, NoteB, NoteC}

\* Raw targets of file-typed links
TAbs == P(TRUE, <<"data", "logo.png">>)
TRel == P(FALSE, <<"img", "pic.png">>)
TUp == P(FALSE, <<"..", "img", "pic.png">>)
Targets == {TAbs, TRel, TUp}

\* A row of a query: decodable into a RoamFile (ok) or not
Row(p) == [ok |-> TRUE, val |-> p]
BadRow == [ok |-> FALSE, val |-> EmptyPath]

\* ------------------------------------------------------------------------
\* The file system: directories, regular files, symbolic links, and the
\* working directory of the process
\* ------------------------------------------------------------------------
FsBase ==
  [dirs |-> {<<>>, <<"roam">>, <<"roam", "notes">>},
   files |-> {},
   links |-> <<>>,
   cwd |-> <<"roam">>]

\* /roam/img/pic.png is a regular file
FsPic ==
  [FsBase EXCEPT !.dirs = @ \cup {<<"roam", "img">>},
                 !.files = {<<"roam", "img", "pic.png">>}]

\* /roam/img is a symbolic link to /data/img, which holds pic.png
FsLink ==
  [dirs |-> {<<>>, <<"roam">>, <<"roam", "notes">>, <<"data">>, <<"data", "img">>},
   files |-> {<<"data", "img", "pic.png">>},
   links |-> (<<"roam", "img">> :> <<"data", "img">>),
   cwd |-> <<"roam">>]

\* as FsPic, the process running in /roam/notes
FsCwd == [FsPic EXCEPT !.cwd = <<"roam", "notes">>]

FileSystems == {FsBase, FsPic, FsLink, FsCwd}

Front(s) == SubSeq(s, 1, Len(s) - 1)

\* std::fs::canonicalize from directory `cur` along the components `rest`:
\* every component must exist, `..` steps to the physical parent, a symbolic
\* link is replaced by its target, a regular file ends the walk
RECURSIVE Walk(_, _, _)
Walk(f, cur, rest) ==
  IF rest = <<>> THEN Some(P(TRUE, cur))
  ELSE LET c == Head(rest)
           nxt == Append(cur, c)
       IN IF c = ".."
            THEN Walk(f, IF cur = <<>> THEN cur ELSE Front(cur), Tail(rest))
          ELSE IF nxt \in DOMAIN f.links
            THEN Walk(f, f.links[nxt], Tail(rest))
          ELSE IF nxt \in f.dirs
            THEN Walk(f, nxt, Tail(rest))
          ELSE IF nxt \in f.files /\ Tail(rest) = <<>>
            THEN Some(P(TRUE, nxt))
          ELSE None

\* Path::canonicalize().ok(): the empty path does not exist; a relative
\* path is taken from the working directory
Canonicalize(f, p) ==
  IF p = EmptyPath THEN None
  ELSE Walk(f, IF p.abs THEN <<>> ELSE f.cwd, p.comps)

\* Path::parent: none for the root and for the empty path
Parent(p) ==
  IF p.comps = <<>> THEN None ELSE Some(P(p.abs, Front(p.comps)))

\* Path::join: an absolute argument replaces the base
Join(base, p) ==
  IF p.abs THEN p ELSE P(base.abs, base.comps \o p.comps)

\* Path::is_absolute
IsAbsolute(p) == p.abs

\* a resolution that canonicalizes an absolute target as well
resolve_all_canonical(f, note_file, asset) ==
  IF Parent(note_file) = None THEN None
  ELSE LET dir == CHOOSE d \in Parent(note_file) : TRUE
       IN Canonicalize(f, Join(dir, asset))

\* try_resolve_asset_path
try_resolve_asset_path(f, note_file, asset) ==
  IF IsAbsolute(asset) THEN Some(asset)
  ELSE IF Parent(note_file) = None THEN None
  ELSE LET dir == CHOOSE d \in Parent(note_file) : TRUE
       IN Canonicalize(f, Join(dir, asset))

\* ------------------------------------------------------------------------
\* State
\* ------------------------------------------------------------------------
VARIABLES
  schemaOk,    \* the store has the tables the two statements name
  idLinks,     \* per note, the rows of the referenced-notes query, in row order
  fileLinks,   \* per note, the rows of the referenced-assets query, in row order
  fs,          \* the file system asset paths are resolved against
  paths,       \* argument: the seed notes
  excluded,    \* argument: the notes for which exclude(..) is true
  pc,          \* "prepare", "seed", "loop", "done"
  i,           \* index of the next seed of the for loop
  visited,     \* HashSet<RoamFile>
  queue,       \* VecDeque<RoamFile>
  all_assets,  \* HashSet<PathBuf>
  notes,       \* Vec<RoamFile>
  outcome,     \* how the invocation ended, and what it returned
  popped,      \* history: the notes popped from the queue, in pop order
  lookups,     \* history: the calls of find_files_referenced_by and their results
  run,         \* 1 in the first invocation, 2 in the second
  first        \* the outcome of the first invocation and its file system

store == <<schemaOk, idLinks, fileLinks>>
args == <<paths, excluded>>
locals == <<visited, queue, all_assets, notes>>
hist == <<popped, lookups>>
calls == <<run, first>>
vars == <<store, fs, args, pc, i, locals, outcome, hist, calls>>

\* ------------------------------------------------------------------------
\* Reference Lookup
\* ------------------------------------------------------------------------
Range(s) == {s[k] : k \in 1..Len(s)}

\* anyhow::Result<ReferencedFiles>
OkFiles(ns, as) == [ok |-> TRUE, notes |-> ns, assets |-> as]
ErrFiles == [ok |-> FALSE, notes |-> <<>>, assets |-> <<>>]

\* rows.collect::<Result<_, _>>()?: the first undecodable row is the error
\* of the whole collection
collect_notes(rows) ==
  IF \E k \in 1..Len(rows) : ~rows[k].ok
    THEN ErrFiles
    ELSE OkFiles([k \in 1..Len(rows) |-> rows[k].val], <<>>)

\* asset_rows.filter_map(|r| r.ok().flatten()).collect(): a row that failed
\* and a row whose path did not resolve are both left out
RECURSIVE collect_assets(_, _, _)
collect_assets(f, note, rows) ==
  IF rows = <<>> THEN <<>>
  ELSE LET r == Head(rows)
           resolved == IF r.ok THEN try_resolve_asset_path(f, note, r.val) ELSE None
           rest == collect_assets(f, note, Tail(rows))
       IN IF resolved = None THEN rest
          ELSE <<CHOOSE a \in resolved : TRUE>> \o rest

\* find_files_referenced_by
find_files_referenced_by(f, path) ==
  LET ns == collect_notes(idLinks[path])
  IN IF ~ns.ok THEN ErrFiles
     ELSE OkFiles(ns.notes, collect_assets(f, path, fileLinks[path]))

\* ------------------------------------------------------------------------
\* Closure Engine
\* ------------------------------------------------------------------------
\* a traversal that never consults the predicate
exclude_never(n) == FALSE

\* exclude(&current)
exclude(n) == n \in excluded

\* an insert that reports every value as new
insert_always_new(set, x) == TRUE

\* HashSet::insert returns true when the value was not yet in the set
insert_is_new(set, x) == x \notin set

\* a loop that records a new note but forgets queue.push_back
RECURSIVE enqueue_unqueued(_, _)
enqueue_unqueued(st, refs) ==
  IF refs = <<>> THEN st
  ELSE LET r == Head(refs)
           st1 == IF r \notin st.visited
                    THEN [visited |-> st.visited \cup {r},
                          queue |-> st.queue,
                          notes |-> Append(st.notes, r)]
                    ELSE st
       IN enqueue_unqueued(st1, Tail(refs))

\* a loop with notes.push outside the `if`
RECURSIVE enqueue_push_all(_, _)
enqueue_push_all(st, refs) ==
  IF refs = <<>> THEN st
  ELSE LET r == Head(refs)
           st1 == IF r \notin st.visited
                    THEN [visited |-> st.visited \cup {r},
                          queue |-> Append(st.queue, r),
                          notes |-> Append(st.notes, r)]
                    ELSE [st EXCEPT !.notes = Append(@, r)]
       IN enqueue_push_all(st1, Tail(refs))

\* a loop that marks and enqueues a new note but forgets notes.push
RECURSIVE enqueue_unnoted(_, _)
enqueue_unnoted(st, refs) ==
  IF refs = <<>> THEN st
  ELSE LET r == Head(refs)
           st1 == IF r \notin st.visited
                    THEN [visited |-> st.visited \cup {r},
                          queue |-> Append(st.queue, r),
                          notes |-> st.notes]
                    ELSE st
       IN enqueue_unnoted(st1, Tail(refs))

\* a loop that marks a new note and pushes it to the front of the queue
RECURSIVE enqueue_front(_, _)
enqueue_front(st, refs) ==
  IF refs = <<>> THEN st
  ELSE LET r == Head(refs)
           st1 == IF r \notin st.visited
                    THEN [visited |-> st.visited \cup {r},
                          queue |-> <<r>> \o st.queue,
                          notes |-> Append(st.notes, r)]
                    ELSE st
       IN enqueue_front(st1, Tail(refs))

\* for referenced in refs { if visited.insert(..) { push_back; push } }
RECURSIVE enqueue_new(_, _)
enqueue_new(st, refs) ==
  IF refs = <<>> THEN st
  ELSE LET r == Head(refs)
           st1 == IF insert_is_new(st.visited, r)
                    THEN [visited |-> st.visited \cup {r},
                          queue |-> Append(st.queue, r),
                          notes |-> Append(st.notes, r)]
                    ELSE st
       IN enqueue_new(st1, Tail(refs))

\* all_assets.into_iter().collect(): a HashSet yields its elements in an
\* order the program does not control
Orderings(S) ==
  {s \in [1..Cardinality(S) -> S] : \A a, b \in 1..Cardinality(S) : s[a] = s[b] => a = b}

Outcome(k, ns, as) == [kind |-> k, notes |-> ns, assets |-> as]
NoOutcome == Outcome("none", <<>>, <<>>)

\* conn.prepare(..).unwrap(), twice: a statement the store rejects panics
Prepare ==
  /\ pc = "prepare"
  /\ IF schemaOk
       THEN /\ pc' = "seed"
            /\ outcome' = outcome
       ELSE /\ pc' = "done"
            /\ outcome' = Outcome("Panic", <<>>, <<>>)
  /\ UNCHANGED <<store, fs, args, i, locals, hist, calls>>

\* a seeding loop that enqueues every seed without consulting visited
SeedStepUnchecked ==
  /\ pc = "seed"
  /\ i <= Len(paths)
  /\ visited' = visited \cup {paths[i]}
  /\ queue' = Append(queue, paths[i])
  /\ notes' = Append(notes, paths[i])
  /\ i' = i + 1
  /\ UNCHANGED <<store, fs, args, pc, all_assets, outcome, hist, calls>>

\* one iteration of `for path in paths`
SeedStep ==
  /\ pc = "seed"
  /\ i <= Len(paths)
  /\ LET st == enqueue_new([visited |-> visited, queue |-> queue, notes |-> notes],
                           <<paths[i]>>)
     IN /\ visited' = st.visited
        /\ queue' = st.queue
        /\ notes' = st.notes
  /\ i' = i + 1
  /\ UNCHANGED <<store, fs, args, pc, all_assets, outcome, hist, calls>>

\* the for loop is over
SeedDone ==
  /\ pc = "seed"
  /\ i > Len(paths)
  /\ pc' = "loop"
  /\ UNCHANGED <<store, fs, args, i, locals, outcome, hist, calls>>

\* a skip that runs the lookup before the exclusion test and keeps its assets
SkipCollecting ==
  /\ pc = "loop"
  /\ queue # <<>>
  /\ exclude(Head(queue))
  /\ queue' = Tail(queue)
  /\ popped' = Append(popped, Head(queue))
  /\ all_assets' = all_assets
                      \cup Range(collect_assets(fs, Head(queue), fileLinks[Head(queue)]))
  /\ UNCHANGED <<store, fs, args, pc, i, visited, notes, outcome, lookups, calls>>

\* a skip that runs the lookup before the exclusion test
SkipAfterLookup ==
  /\ pc = "loop"
  /\ queue # <<>>
  /\ exclude(Head(queue))
  /\ LET current == Head(queue)
         found == find_files_referenced_by(fs, current)
     IN /\ queue' = Tail(queue)
        /\ popped' = Append(popped, current)
        /\ lookups' = Append(lookups, [note |-> current, result |-> found])
        /\ IF found.ok
             THEN /\ pc' = pc
                  /\ outcome' = outcome
             ELSE /\ pc' = "done"
                  /\ outcome' = Outcome("Err", <<>>, <<>>)
  /\ UNCHANGED <<store, fs, args, i, visited, all_assets, notes, calls>>

\* while let Some(current) = queue.pop_front(), exclude(&current): continue
Skip ==
  /\ pc = "loop"
  /\ queue # <<>>
  /\ exclude(Head(queue))
  /\ queue' = Tail(queue)
  /\ popped' = Append(popped, Head(queue))
  /\ UNCHANGED <<store, fs, args, pc, i, visited, all_assets, notes, outcome, lookups, calls>>

\* an expansion that deletes the rows it has read from the store
ExpandConsuming ==
  /\ pc = "loop"
  /\ queue # <<>>
  /\ ~exclude(Head(queue))
  /\ LET current == Head(queue)
         found == find_files_referenced_by(fs, current)
         st == enqueue_new([visited |-> visited, queue |-> Tail(queue), notes |-> notes],
                           found.notes)
     IN /\ found.ok
        /\ visited' = st.visited
        /\ queue' = st.queue
        /\ notes' = st.notes
        /\ all_assets' = all_assets \cup Range(found.assets)
        /\ popped' = Append(popped, current)
        /\ lookups' = Append(lookups, [note |-> current, result |-> found])
        /\ idLinks' = [idLinks EXCEPT ![current] = <<>>]
  /\ UNCHANGED <<schemaOk, fileLinks, fs, args, pc, i, outcome, calls>>

\* an expansion that takes the note at the back of the queue (pop_back)
ExpandLast ==
  /\ pc = "loop"
  /\ queue # <<>>
  /\ ~exclude(queue[Len(queue)])
  /\ LET current == queue[Len(queue)]
         found == find_files_referenced_by(fs, current)
         st == enqueue_new([visited |-> visited,
                            queue |-> SubSeq(queue, 1, Len(queue) - 1),
                            notes |-> notes],
                           found.notes)
     IN /\ found.ok
        /\ visited' = st.visited
        /\ queue' = st.queue
        /\ notes' = st.notes
        /\ all_assets' = all_assets \cup Range(found.assets)
        /\ popped' = Append(popped, current)
        /\ lookups' = Append(lookups, [note |-> current, result |-> found])
  /\ UNCHANGED <<store, fs, args, pc, i, outcome, calls>>

\* the lookup of current succeeds: its notes are enqueued, its assets added
Expand ==
  /\ pc = "loop"
  /\ queue # <<>>
  /\ ~exclude(Head(queue))
  /\ LET current == Head(queue)
         found == find_files_referenced_by(fs, current)
         st == enqueue_new([visited |-> visited, queue |-> Tail(queue), notes |-> notes],
                           found.notes)
     IN /\ found.ok
        /\ visited' = st.visited
        /\ queue' = st.queue
        /\ notes' = st.notes
        /\ all_assets' = all_assets \cup Range(found.assets)
        /\ popped' = Append(popped, current)
        /\ lookups' = Append(lookups, [note |-> current, result |-> found])
  /\ UNCHANGED <<store, fs, args, pc, i, outcome, calls>>

\* the lookup of current fails: `?` returns the error, the locals are dropped
Abort ==
  /\ pc = "loop"
  /\ queue # <<>>
  /\ ~exclude(Head(queue))
  /\ LET current == Head(queue)
         found == find_files_referenced_by(fs, current)
     IN /\ ~found.ok
        /\ queue' = Tail(queue)
        /\ popped' = Append(popped, current)
        /\ lookups' = Append(lookups, [note |-> current, result |-> found])
        /\ outcome' = Outcome("Err", <<>>, <<>>)
        /\ pc' = "done"
  /\ UNCHANGED <<store, fs, args, i, visited, all_assets, notes, calls>>

\* a return that collects the notes from the visited set
ReturnFromVisited ==
  /\ pc = "loop"
  /\ queue = <<>>
  /\ \E order \in Orderings(all_assets), ns \in Orderings(visited) :
       outcome' = Outcome("Ok", ns, order)
  /\ pc' = "done"
  /\ UNCHANGED <<store, fs, args, i, locals, hist, calls>>

\* a loop that may stop and return while the queue still holds notes
ReturnEarly ==
  /\ pc = "loop"
  /\ \E order \in Orderings(all_assets) :
       outcome' = Outcome("Ok", notes, order)
  /\ pc' = "done"
  /\ UNCHANGED <<store, fs, args, i, locals, hist, calls>>

\* a return that leaves the seeds out of the notes
ReturnDiscovered ==
  /\ pc = "loop"
  /\ queue = <<>>
  /\ \E order \in Orderings(all_assets) :
       outcome' = Outcome("Ok",
                          SubSeq(notes, Cardinality(Range(paths)) + 1, Len(notes)),
                          order)
  /\ pc' = "done"
  /\ UNCHANGED <<store, fs, args, i, locals, hist, calls>>

\* the queue is empty: Ok(ReferencedFiles { notes, assets })
Return ==
  /\ pc = "loop"
  /\ queue = <<>>
  /\ \E order \in Orderings(all_assets) :
       outcome' = Outcome("Ok", notes, order)
  /\ pc' = "done"
  /\ UNCHANGED <<store, fs, args, i, locals, hist, calls>>

Next == Prepare \/ SeedStep \/ SeedDone \/ Skip \/ Expand \/ Abort \/ Return

\* The caller invokes find_file_references_recursive a second time on the
\* same store with the same arguments; every local starts afresh, and the
\* file system is whatever it has become in between
Reinvoke ==
  /\ pc = "done"
  /\ run = 1
  /\ run' = 2
  /\ first' = [outcome |-> outcome, fs |-> fs]
  /\ fs' \in FileSystems
  /\ pc' = "prepare"
  /\ i' = 1
  /\ visited' = {}
  /\ queue' = <<>>
  /\ all_assets' = {}
  /\ notes' = <<>>
  /\ outcome' = NoOutcome
  /\ popped' = <<>>
  /\ lookups' = <<>>
  /\ UNCHANGED <<store, args>>

NextTwice == Next \/ Reinvoke

\* After an invocation has returned Ok, the caller invokes
\* find_file_references_recursive again on the same store with the returned
\* notes as seeds and the same predicate; every local starts afresh, and the
\* file system is whatever it has become in between
InvokeOnResult ==
  /\ pc = "done"
  /\ run = 1
  /\ outcome.kind = "Ok"
  /\ run' = 2
  /\ first' = [outcome |-> outcome, fs |-> fs]
  /\ paths' = outcome.notes
  /\ fs' \in FileSystems
  /\ pc' = "prepare"
  /\ i' = 1
  /\ visited' = {}
  /\ queue' = <<>>
  /\ all_assets' = {}
  /\ notes' = <<>>
  /\ outcome' = NoOutcome
  /\ popped' = <<>>
  /\ lookups' = <<>>
  /\ UNCHANGED <<store, excluded>>

NextOnResult == Next \/ InvokeOnResult

\* ------------------------------------------------------------------------
\* Initial states: every store, file system and argument within the bounds
\* ------------------------------------------------------------------------
IdRows == {Row(n) : n \in Notes} \cup {BadRow}
FileRows == {Row(t) : t \in Targets} \cup {BadRow}

\* the tables of rows per note with `lo` to `hi` rows of `Rows` in all
Tables(Rows, lo, hi) ==
  UNION {
    {(NoteA :> ra) @@ (NoteB :> rb) @@ (NoteC :> rc) :
       ra \in [1..lens[1] -> Rows], rb \in [1..lens[2] -> Rows], rc \in [1..lens[3] -> Rows]}
    : lens \in {t \in (0..hi) \X (0..hi) \X (0..hi) :
                  /\ t[1] + t[2] + t[3] >= lo
                  /\ t[1] + t[2] + t[3] <= hi} }

NoRows == (NoteA :> <<>>) @@ (NoteB :> <<>>) @@ (NoteC :> <<>>)

InitLocals ==
  /\ pc = "prepare"
  /\ i = 1
  /\ visited = {}
  /\ queue = <<>>
  /\ all_assets = {}
  /\ notes = <<>>
  /\ outcome = NoOutcome
  /\ popped = <<>>
  /\ lookups = <<>>
  /\ run = 1
  /\ first = [outcome |-> NoOutcome, fs |-> fs]

\* a store without the schema holds no rows; one with it holds any rows
\* such that seeds and rows together are at most `size`. Without a seed no
\* query is ever run, and the rows are left empty
InitInputs(size, withFiles) ==
  /\ schemaOk \in BOOLEAN
  /\ \E s \in 0..size :
       /\ paths \in [1..s -> Notes]
       /\ \E k \in 0..(size - s) :
            /\ idLinks \in (IF schemaOk THEN Tables(IdRows, k, k) ELSE {NoRows})
            /\ fileLinks \in (IF schemaOk /\ withFiles /\ s > 0
                                THEN Tables(FileRows, 0, size - s - k)
                                ELSE {NoRows})
            /\ (~schemaOk \/ s = 0) => k = 0
  /\ excluded \in SUBSET Notes

\* graph scenarios: no file-typed links, one file system
Init ==
  /\ InitInputs(MaxSize, FALSE)
  /\ fs = FsPic
  /\ InitLocals

\* asset scenarios: any seeds without repetition, id-typed and file-typed
\* links, one file system
InitAssets ==
  /\ schemaOk \in BOOLEAN
  /\ paths \in UNION {Orderings(S) : S \in SUBSET Notes}
  /\ \E k \in 0..MaxAssetSize :
       /\ idLinks \in (IF schemaOk THEN Tables(IdRows, k, k) ELSE {NoRows})
       /\ fileLinks \in (IF schemaOk /\ paths # <<>>
                           THEN Tables(FileRows, 0, MaxAssetSize - k)
                           ELSE {NoRows})
       /\ (~schemaOk \/ paths = <<>>) => k = 0
  /\ excluded \in SUBSET Notes
  /\ fs = FsLink
  /\ InitLocals

\* graph scenarios in which the predicate excludes at most one note
InitFair ==
  /\ Init
  /\ \E n \in Notes : excluded \subseteq {n}

\* scenarios of two invocations: file-typed links, every file system
InitTwice ==
  /\ InitInputs(MaxTwiceSize, TRUE)
  /\ fs \in FileSystems
  /\ InitLocals

\* order scenarios: a store of five notes, one or two seeds, id-typed links
\* only, at most one excluded note (the second seed or a note that is not a
\* seed)
NoteD == P(TRUE, <<"roam", "d.org">>)
NoteE == P(FALSE, <<"e.org">>)
OrderNotes == Notes \cup {NoteD, NoteE}
OrderRows == {Row(n) : n \in OrderNotes} \cup {BadRow}

\* the numbers of rows of the five notes, at most `hi` rows in all
OrderLens(hi) ==
  {t \in (0..hi) \X (0..hi) \X (0..hi) \X (0..hi) \X (0..hi) :
     t[1] + t[2] + t[3] + t[4] + t[5] <= hi}

InitOrder ==
  /\ schemaOk = TRUE
  /\ paths \in {<<NoteA>>, <<NoteA, NoteB>>}
  /\ \E lens \in OrderLens(MaxOrderRows) :
       \E ra \in [1..lens[1] -> OrderRows], rb \in [1..lens[2] -> OrderRows],
          rc \in [1..lens[3] -> OrderRows], rd \in [1..lens[4] -> OrderRows],
          re \in [1..lens[5] -> OrderRows] :
         idLinks = (NoteA :> ra) @@ (NoteB :> rb) @@ (NoteC :> rc)
                     @@ (NoteD :> rd) @@ (NoteE :> re)
  /\ fileLinks = [n \in OrderNotes |-> <<>>]
  /\ excluded \in {{}, {NoteB}, {NoteC}}
  /\ fs = FsPic
  /\ InitLocals

Spec == Init /\ [][Next]_vars

SpecAssets == InitAssets /\ [][Next]_vars

SpecTwice == InitTwice /\ [][NextTwice]_vars

\* the order scenarios
SpecOrder == InitOrder /\ [][Next]_vars

\* an invocation, and after its success one on its result
SpecOnResult == InitTwice /\ [][NextOnResult]_vars

\* the loop is never suspended: a step that can be taken is taken
FairSpec == InitFair /\ [][Next]_vars /\ WF_vars(Next)

\* ------------------------------------------------------------------------
\* Vocabulary of the properties
\* ------------------------------------------------------------------------
Done == pc = "done"
Succeeded == Done /\ outcome.kind = "Ok"

\* the notes the decodable id-typed rows of n name
Edges(n) == {idLinks[n][k].val : k \in {j \in 1..Len(idLinks[n]) : idLinks[n][j].ok}}

HasBadRow(rows) == \E k \in 1..Len(rows) : ~rows[k].ok

NoDuplicates(s) == \A a, b \in 1..Len(s) : s[a] = s[b] => a = b

\* the distinct elements of s in the order of their first occurrence
RECURSIVE FirstOccurrences(_)
FirstOccurrences(s) ==
  IF s = <<>> THEN <<>>
  ELSE LET init == FirstOccurrences(Front(s))
           last == s[Len(s)]
       IN IF last \in Range(init) THEN init ELSE Append(init, last)

\* chains seed = n0 -> n1 -> .. -> nk of id-typed links in which every note
\* but the last is not excluded; a chain through a finite graph can be taken
\* without repeated notes
Chains ==
  {c \in UNION {[1..k -> Notes] : k \in 1..Cardinality(Notes)} :
     /\ c[1] \in Range(paths)
     /\ \A j \in 1..(Len(c) - 1) : c[j] \notin excluded /\ c[j + 1] \in Edges(c[j])}

ChainEnds == {c[Len(c)] : c \in Chains}

\* the notes on which Reference Lookup has been invoked
LookedUp == {lookups[k].note : k \in 1..Len(lookups)}

CycleCase ==
  /\ schemaOk
  /\ idLinks = (NoteA :> <<Row(NoteB)>>) @@ (NoteB :> <<Row(NoteC)>>)
                 @@ (NoteC :> <<Row(NoteA)>>)
  /\ paths = <<NoteA>>
  /\ excluded = {}

\* ------------------------------------------------------------------------
\* C2: the traversal terminates on every graph, cycles and self-links
\* included: every run reaches its end, no run pops more often than there
\* are notes, a run that succeeds ends with the frontier empty, and with
\* edges A->B, B->C, C->A and seed A it returns A, B, C once each
\* ------------------------------------------------------------------------
C2_Terminates ==
  /\ <>Done
  /\ [](Len(popped) <= Cardinality(Notes))
  /\ [](Succeeded => queue = <<>>)
  /\ [](CycleCase /\ Done =>
         /\ outcome.kind = "Ok"
         /\ outcome.notes = <<NoteA, NoteB, NoteC>>
         /\ queue = <<>>)

\* the cycle has been walked to its end
C2_Witness == CycleCase /\ Done /\ Len(popped) = 3

\* ------------------------------------------------------------------------
\* C3: the returned notes hold every note once, and begin with the distinct
\* seeds in the order of their first occurrence in the input
\* ------------------------------------------------------------------------
C3_NotesOnceSeedsFirst ==
  Succeeded =>
    /\ NoDuplicates(outcome.notes)
    /\ LET seeds == FirstOccurrences(paths)
       IN /\ Len(seeds) <= Len(outcome.notes)
          /\ SubSeq(outcome.notes, 1, Len(seeds)) = seeds

\* duplicate seeds, and a note that is no seed and is named by two rows of
\* expanded notes
C3_Witness ==
  /\ Succeeded
  /\ ~NoDuplicates(paths)
  /\ \E n \in Range(outcome.notes) \ Range(paths) :
       Cardinality({<<m, k>> \in LookedUp \X (1..MaxSize) :
                      k <= Len(idLinks[m]) /\ idLinks[m][k] = Row(n)}) >= 2

\* the example of a truncation: edges A->B, B->C, seed A, exclude(B)
TruncationCase ==
  /\ schemaOk
  /\ idLinks = (NoteA :> <<Row(NoteB)>>) @@ (NoteB :> <<Row(NoteC)>>)
                 @@ (NoteC :> <<>>)
  /\ paths = <<NoteA>>
  /\ NoteB \in excluded
  /\ NoteA \notin excluded

AssetsOf(n) == Range(find_files_referenced_by(fs, n).assets)

\* ------------------------------------------------------------------------
\* C5: on success the returned assets are, as a set, the union of the assets
\* Reference Lookup returns for the returned notes that are not excluded;
\* an asset only excluded notes link to is absent; no path is returned twice
\* ------------------------------------------------------------------------
C5_AssetsAreTheUnion ==
  Succeeded =>
    /\ Range(outcome.assets) = UNION {AssetsOf(n) : n \in Range(outcome.notes) \ excluded}
    /\ \A a \in Range(outcome.assets) : \E n \in Notes \ excluded : a \in AssetsOf(n)
    /\ NoDuplicates(outcome.assets)

\* an excluded returned note whose asset is not returned, beside a returned
\* asset
C5_Witness ==
  /\ Succeeded
  /\ outcome.assets # <<>>
  /\ \E m \in Range(outcome.notes) \cap excluded :
       \E a \in Range(collect_assets(fs, m, fileLinks[m])) : a \notin Range(outcome.assets)

\* one of the two queries for n yields a row that fails
QueryFails(n) == HasBadRow(idLinks[n]) \/ HasBadRow(fileLinks[n])

\* ------------------------------------------------------------------------
\* C6: a store query that fails for a note ends the invocation at once with
\* the error and no result: the failing lookup is the last one, the note it
\* was for is the last one popped, and no notes or assets are returned
\* ------------------------------------------------------------------------
C6_StoreFailureAborts ==
  \A k \in 1..Len(lookups) :
    QueryFails(lookups[k].note) =>
      /\ k = Len(lookups)
      /\ popped[Len(popped)] = lookups[k].note
      /\ Done
      /\ outcome = Outcome("Err", <<>>, <<>>)

\* ------------------------------------------------------------------------
\* C7: a row of either query that fails to decode for a note being expanded
\* makes the invocation return an error, not a result
\* ------------------------------------------------------------------------
C7_RowDecodeFailureIsError ==
  (Done /\ \E n \in LookedUp : HasBadRow(idLinks[n]) \/ HasBadRow(fileLinks[n]))
    => outcome.kind = "Err"

\* ------------------------------------------------------------------------
\* C8: every invocation ends with a complete result (Ok) or with an error
\* value (Err), also when the store rejects a statement being prepared
\* ------------------------------------------------------------------------
C8_EndsOkOrErr == Done => outcome.kind \in {"Ok", "Err"}

\* what the resolution of target t linked from note n is to produce
ResolutionOf(f, n, t) ==
  IF t.abs THEN {t}
  ELSE IF n.comps = <<>> THEN {}
  ELSE Canonicalize(f, Join(P(n.abs, Front(n.comps)), t))

\* the same for the rows of a query, in row order
RECURSIVE ResolutionsOf(_, _, _)
ResolutionsOf(f, n, rows) ==
  IF rows = <<>> THEN <<>>
  ELSE LET init == ResolutionsOf(f, n, Front(rows))
           last == rows[Len(rows)]
       IN IF last.ok /\ ResolutionOf(f, n, last.val) # {}
            THEN Append(init, CHOOSE a \in ResolutionOf(f, n, last.val) : TRUE)
            ELSE init

\* ------------------------------------------------------------------------
\* C9: an absolute target is returned unchanged, existing or not; a relative
\* target is returned as the canonical form of the note's parent directory
\* joined with it when that exists; otherwise nothing is produced; no target
\* makes a lookup fail or changes the notes it returns
\* ------------------------------------------------------------------------
C9_AssetResolution ==
  /\ pc = "prepare" =>
       \A n \in Notes, t \in Targets :
         try_resolve_asset_path(fs, n, t) = ResolutionOf(fs, n, t)
  /\ \A k \in 1..Len(lookups) :
       LET n == lookups[k].note
           r == lookups[k].result
       IN /\ r.ok = ~HasBadRow(idLinks[n])
          /\ r.ok => /\ r.notes = [j \in 1..Len(idLinks[n]) |-> idLinks[n][j].val]
                     /\ r.assets = ResolutionsOf(fs, n, fileLinks[n])

\* a lookup returned a resolved path that is not the joined path: `..` or a
\* symbolic link has been resolved
C9_Witness ==
  /\ Succeeded
  /\ \E k \in 1..Len(lookups) :
       LET n == lookups[k].note
       IN /\ n.comps # <<>>
          /\ lookups[k].result.assets # <<>>
          /\ \A j \in 1..Len(fileLinks[n]) :
               /\ fileLinks[n][j].ok
               /\ ~fileLinks[n][j].val.abs
               /\ Join(P(n.abs, Front(n.comps)), fileLinks[n][j].val)
                    \notin Range(lookups[k].result.assets)

\* the second invocation ended as the first did
SameOutcome ==
  /\ outcome.kind = first.outcome.kind
  /\ outcome.notes = first.outcome.notes
  /\ Range(outcome.assets) = Range(first.outcome.assets)

\* ------------------------------------------------------------------------
\* C10: two invocations with the same store, seeds and exclusion predicate
\* end in the same outcome: the same kind, the same notes in the same order
\* and the same set of assets
\* ------------------------------------------------------------------------
C10_SameInputsSameOutcome == (run = 2 /\ Done) => SameOutcome

\* C10, amended: two invocations with the same store, seeds, exclusion
\* predicate and file system (files, links, working directory) end in the
\* same outcome
C10_SameInputsAndFilesSameOutcome ==
  (run = 2 /\ Done /\ fs = first.fs) => SameOutcome

\* a second invocation on an unchanged file system has returned an asset
\* that some other file system does not hold
C10_Witness ==
  /\ run = 2
  /\ Succeeded
  /\ fs = first.fs
  /\ \E a \in Range(outcome.assets) :
       \E f \in FileSystems : a.comps \notin f.files

\* ------------------------------------------------------------------------
\* C11: the computation is read-only: no step of an invocation (seeding,
\* exclusion test, lookup, asset resolution, error abort, return) changes
\* the store (schema, id-typed rows, file-typed rows) or the file system, so
\* both are in every reachable state what they were initially
\* ------------------------------------------------------------------------
C11_ReadOnly == [][store' = store /\ fs' = fs]_vars

\* a successful run that skipped an excluded note, looked up another and
\* resolved an asset through the file system
C11_Witness ==
  /\ Succeeded
  /\ outcome.assets # <<>>
  /\ lookups # <<>>
  /\ Len(popped) > Len(lookups)

\* ------------------------------------------------------------------------
\* C12: in every reachable state every element of the queue is in visited,
\* and a note enters the queue at most once per invocation: the notes popped
\* so far followed by the queue (everything that was ever enqueued) hold no
\* note twice, so the queue has no duplicate and no popped note is in it; and
\* a step appends to the queue only notes that were not in visited before it
\* ------------------------------------------------------------------------
C12_FrontierInVisitedEnqueuedOnce ==
  /\ [](Range(queue) \subseteq visited)
  /\ [](Range(popped) \subseteq visited)
  /\ [](NoDuplicates(queue))
  /\ [](Range(popped) \cap Range(queue) = {})
  /\ [](NoDuplicates(popped \o queue))
  /\ [][Range(popped' \o queue') \ Range(popped \o queue)
          = visited' \ visited]_vars

\* a note was popped, a later lookup returned it again, and the queue still
\* holds a note
C12_Witness ==
  /\ pc = "loop"
  /\ queue # <<>>
  /\ \E k \in 1..Len(lookups) :
       \E j \in 1..Len(popped) :
         /\ popped[j] \in Range(lookups[k].result.notes)
         /\ \E m \in (j + 1)..Len(popped) : popped[m] = lookups[k].note

\* ------------------------------------------------------------------------
\* C13: after every seeding and expansion step the result notes have the
\* membership of visited: a note is in visited exactly if it occurs in
\* notes, and notes is as long as visited is large
\* ------------------------------------------------------------------------
C13_NotesAreVisited ==
  /\ Range(notes) = visited
  /\ Len(notes) = Cardinality(visited)

\* a seed was given twice, a lookup returned the same note in two rows, and
\* the notes hold that note next to the seed
C13_Witness ==
  /\ pc = "loop"
  /\ Len(paths) > Cardinality(Range(paths))
  /\ \E k \in 1..Len(lookups) :
       /\ ~NoDuplicates(lookups[k].result.notes)
       /\ Range(lookups[k].result.notes) \ Range(paths) # {}
  /\ Len(notes) = 2

\* the invocation has returned a value, Ok or Err, to its caller
Returned == Done /\ outcome.kind \in {"Ok", "Err"}

\* ------------------------------------------------------------------------
\* C14: the queue is consumed before the invocation returns: in every state
\* in which the invocation has returned to its caller the queue is empty
\* ------------------------------------------------------------------------
C14_ReturnedQueueEmpty == Returned => queue = <<>>

\* C14, amended: in every state in which the invocation has returned Ok the
\* queue is empty and every discovered note has been popped; a return of Err
\* leaves in the queue the discovered notes that were not popped
C14_SucceededQueueEmpty ==
  /\ Succeeded => /\ queue = <<>>
                  /\ Range(popped) = visited
  /\ Returned => Range(queue) = visited \ Range(popped)

\* a successful return after three pops, one of them of an excluded note
C14_Witness ==
  /\ Succeeded
  /\ Len(popped) = 3
  /\ Len(lookups) = 2

\* the notes within d links of a seed, along chains whose notes before the
\* last are not excluded
RECURSIVE Within(_)
Within(d) ==
  IF d = 0 THEN Range(paths)
  ELSE LET prev == Within(d - 1)
       IN prev \cup UNION {Edges(n) : n \in prev \ excluded}

\* the length of the shortest such chain to n
Distance(n) ==
  CHOOSE d \in 0..Cardinality(DOMAIN idLinks) :
    /\ n \in Within(d)
    /\ d > 0 => n \notin Within(d - 1)

\* the index of the first occurrence of x in s, 0 if there is none
FirstIndex(s, x) ==
  IF x \in Range(s) THEN CHOOSE k \in 1..Len(s) : s[k] = x /\ \A j \in 1..(k - 1) : s[j] # x
  ELSE 0

\* the notes other than seeds that lookup k was the first to return
DiscoveredBy(k) ==
  {n \in Range(lookups[k].result.notes) \ Range(paths) :
     \A j \in 1..(k - 1) : n \notin Range(lookups[j].result.notes)}

\* the raw rows of the referenced-notes query of n, in the store's order
RowValues(n) == [j \in 1..Len(idLinks[n]) |-> idLinks[n][j].val]

\* ------------------------------------------------------------------------
\* C15: the returned notes are in breadth-first discovery order: the
\* distance from the seeds (shortest chain of id-typed links through notes
\* that are not excluded) never decreases along the returned sequence, and
\* two notes first returned by the lookup of the same parent are in the
\* order of the parent's rows in the store
\* ------------------------------------------------------------------------
C15_BreadthFirstOrder ==
  Succeeded =>
    /\ \A a, b \in 1..Len(outcome.notes) :
         a < b => Distance(outcome.notes[a]) <= Distance(outcome.notes[b])
    /\ \A k \in 1..Len(lookups) :
         \A n, m \in DiscoveredBy(k) :
           FirstIndex(outcome.notes, n) < FirstIndex(outcome.notes, m)
             <=> FirstIndex(RowValues(lookups[k].note), n)
                   < FirstIndex(RowValues(lookups[k].note), m)

\* two seeds; the second has a child and a grandchild, the first has a child;
\* the returned notes are the seeds, the two children, then the grandchild
C15_Witness ==
  /\ Succeeded
  /\ Len(paths) = 2
  /\ Len(outcome.notes) = 5
  /\ outcome.notes[3] \in Edges(paths[1])
  /\ outcome.notes[4] \in Edges(paths[2])
  /\ outcome.notes[5] \in Edges(outcome.notes[4])
  /\ Distance(outcome.notes[5]) = 2

\* the notes of s that are not excluded, in the order of s
RECURSIVE NotExcluded(_)
NotExcluded(s) ==
  IF s = <<>> THEN <<>>
  ELSE IF Head(s) \in excluded THEN NotExcluded(Tail(s))
       ELSE <<Head(s)>> \o NotExcluded(Tail(s))

\* ------------------------------------------------------------------------
\* C16: in every reachable state the result notes are the notes popped so
\* far, in pop order, followed by the queue from front to back; hence the
\* notes are popped and tested in the order of the returned notes, and
\* looked up in that order with the excluded notes left out
\* ------------------------------------------------------------------------
C16_NotesArePoppedThenQueue ==
  /\ notes = popped \o queue
  /\ Succeeded => popped = outcome.notes
  /\ [k \in 1..Len(lookups) |-> lookups[k].note] = NotExcluded(popped)

\* in the middle of the traversal: a lookup has been made, an excluded note
\* has been skipped, and a note waits in the queue
C16_Witness ==
  /\ pc = "loop"
  /\ lookups # <<>>
  /\ Len(popped) > Len(lookups)
  /\ queue # <<>>

\* the notes whose lookup the store would fail
FailingNotes == {n \in DOMAIN idLinks : ~find_files_referenced_by(fs, n).ok}

\* ------------------------------------------------------------------------
\* C17: within an invocation every note is popped and tested at most once,
\* and exactly once when the invocation succeeds; the lookup is made at most
\* once per note, only for popped notes and never for an excluded one, so
\* there are at most as many lookups as discovered notes; and a store with
\* the schema whose lookups fail only for notes that are excluded or not
\* reachable from the seeds makes no invocation end in an error
\* ------------------------------------------------------------------------
C17_TestedAndLookedUpOnce ==
  /\ NoDuplicates(popped)
  /\ Succeeded => Range(popped) = visited /\ Len(popped) = Cardinality(visited)
  /\ NoDuplicates([k \in 1..Len(lookups) |-> lookups[k].note])
  /\ LookedUp = Range(popped) \ excluded
  /\ Len(lookups) <= Cardinality(visited)
  /\ (Done /\ schemaOk /\ FailingNotes \subseteq excluded \cup (Notes \ ChainEnds))
       => Succeeded

\* a successful run on a store that fails for a discovered excluded note and
\* for a note that is never discovered
C17_Witness ==
  /\ Succeeded
  /\ lookups # <<>>
  /\ FailingNotes \cap visited \cap excluded # {}
  /\ FailingNotes \ visited # {}

\* the invocation on the result of the first has ended as the first did
SameResult ==
  /\ outcome.kind = "Ok"
  /\ outcome.notes = first.outcome.notes
  /\ Range(outcome.assets) = Range(first.outcome.assets)

\* ------------------------------------------------------------------------
\* C18: the closure is idempotent: when an invocation has succeeded with
\* notes R and assets S, an invocation on the same store with the seeds R,
\* in that order, and the same predicate succeeds with the notes R and the
\* set of assets S
\* ------------------------------------------------------------------------
C18_Idempotent == (run = 2 /\ Done) => SameResult

\* C18, amended: when an invocation has succeeded with notes R and assets S,
\* an invocation on the same store and the same file system (files, links,
\* working directory) with the seeds R, in that order, and the same
\* predicate succeeds with the notes R and the set of assets S
C18_IdempotentOnSameFiles ==
  (run = 2 /\ Done /\ fs = first.fs) => SameResult

\* an invocation on an unchanged file system whose two seeds are the result
\* of the first, one of them found by a lookup, has succeeded
C18_Witness ==
  /\ run = 2
  /\ Succeeded
  /\ fs = first.fs
  /\ paths = first.outcome.notes
  /\ Len(paths) = 2
  /\ \E k \in 1..Len(lookups) : lookups[k].result.notes # <<>>

====
